---- MODULE Spec2Model ----
(***************************************************************************)
(* Model of src/src/canboot_main.c: the boot decision of canboot_main, the *)
(* double-reset detector, the update-mode run loop and the command         *)
(* handlers that stage blocks in page_buffer and commit pages to flash.    *)
(*                                                                         *)
(* Memory is modelled byte by byte.  Addresses are the byte addresses the  *)
(* protocol carries.  The configuration is scaled down (4-byte blocks,     *)
(* 8-byte flash pages, a 16-byte page buffer, application at 16) so that   *)
(* the whole flash fits in a state; the ratios that matter are kept: the   *)
(* page is a multiple of the block, the application starts at neither      *)
(* page 0 nor page 1, and CONFIG_MAX_FLASH_PAGE_SIZE is larger than the    *)
(* page size the device reports, so the memcpy of a block at an address    *)
(* that is not block-aligned stays inside page_buffer.                     *)
(*                                                                         *)
(* flash_complete() and the scheduler have no state here.  The log, the    *)
(* commit list and the staged sets are history variables: the code does    *)
(* not read them.                                                          *)
(***************************************************************************)
EXTENDS Integers, Sequences, FiniteSets, TLC

(***************************************************************************)
(* Configuration (autoconf.h, board code)                                  *)
(***************************************************************************)
\* CONFIG_BLOCK_SIZE: bytes per protocol block
CONFIG_BLOCK_SIZE == 4
\* flash_get_page_size(): bytes per flash page
FlashPageSize == 8
\* CONFIG_MAX_FLASH_PAGE_SIZE: capacity of page_buffer
CONFIG_MAX_FLASH_PAGE_SIZE == 16
\* CONFIG_APPLICATION_START: first byte of the application region
CONFIG_APPLICATION_START == 16
\* REQUEST_SIG (0x5984E3FA6CA1589B), represented by its low 16 bits
REQUEST_SIG == 22683
\* the erased-flash byte
Fill == 255

\* Model bounds
\* commands the host sends after power-on under Spec
MaxCmds == 3
\* commands the host sends after power-on under BootSpec
MaxBootCmds == 2
\* device resets after power-on (canbus_reboot, reset button, application)
MaxResets == 1

\* the modelled flash: the bootloader, two application pages, and the page
\* after them (end-of-file can commit one page past the last block)
FlashSize == CONFIG_APPLICATION_START + 3 * FlashPageSize
FlashAddrs == 0 .. (FlashSize - 1)
BufIdx == 0 .. (CONFIG_MAX_FLASH_PAGE_SIZE - 1)
BlocksPerPage == FlashPageSize \div CONFIG_BLOCK_SIZE

\* a value the persistent register can hold after power-on besides 0 and
\* the request signature
StaleCode == REQUEST_SIG + 1
BootupCodes == {0, REQUEST_SIG, StaleCode}

VARIABLES
    pc,                 \* position of the single control flow
    bootup_code,        \* persistent register (get/set_bootup_code)
    flash,              \* program memory, byte address -> byte
    page_buffer,        \* static uint8_t page_buffer[]
    last_page_address,  \* static uint32_t last_page_address
    page_pending,       \* static uint8_t page_pending
    is_in_transfer,     \* static uint8_t is_in_transfer
    complete,           \* static uint8_t complete
    tx_busy,            \* the transmit queue is not empty
    button_level,       \* level of the button pin during this boot
    cfg,                \* build configuration
    resp,               \* the last response handed to the transport
    log,                \* commands handled since the last reset
    commits,            \* flash page writes since the last reset
    staged,             \* buffer offsets written since the last commit
    staged_pages,       \* page bases addressed since the last commit
    cmds_left,          \* commands the host will still send
    nresets,            \* resets so far
    reset_at            \* where the last reset hit ("power" at power-on)

vars == <<pc, bootup_code, flash, page_buffer, last_page_address,
          page_pending, is_in_transfer, complete, tx_busy, button_level,
          cfg, resp, log, commits, staged, staged_pages, cmds_left,
          nresets, reset_at>>

ram == <<page_buffer, last_page_address, page_pending, is_in_transfer,
         complete>>
session == <<resp, log, commits, staged, staged_pages, tx_busy>>
env == <<button_level, cfg, cmds_left, nresets, reset_at>>

(***************************************************************************)
(* Helpers                                                                 *)
(***************************************************************************)
\* memcpy(&buf[pos], data, Len(data))
Memcpy(buf, pos, data) ==
    [i \in DOMAIN buf |->
        IF i >= pos /\ i < pos + Len(data) THEN data[i - pos + 1] ELSE buf[i]]

\* memset(page_buffer, 0xFF, sizeof(page_buffer))
FilledBuffer == [i \in BufIdx |-> Fill]

\* a zero-initialised static page_buffer
ZeroBuffer == [i \in BufIdx |-> 0]

\* flash_read_block(address, dest): the block's bytes, in address order
FlashReadBlock(fl, address) ==
    [i \in 1 .. CONFIG_BLOCK_SIZE |-> fl[address + i - 1]]

\* flash_write_page(page_address, data): programs one page from the buffer
FlashWritePage(fl, page_address, buf) ==
    [a \in DOMAIN fl |->
        IF a >= page_address /\ a < page_address + FlashPageSize
        THEN buf[a - page_address] ELSE fl[a]]

\* the first page of the buffer, as a sequence
PageOf(buf) == [i \in 1 .. FlashPageSize |-> buf[i - 1]]

\* ((a - b) mod 2^32) / d in uint32_t arithmetic, for d dividing 2^16.
\* 2^32 is beyond TLC's integers, so the wrapped case is computed as
\* 2^32/d - ceil((b - a)/d), which is the same number.
U32SubDiv(a, b, d) ==
    IF a >= b THEN (a - b) \div d
    ELSE (2^16 \div d) * (2^16) + ((a - b) \div d)

PageBase(address) == address - (address % FlashPageSize)

\* the buffer offsets a block copied to page_pos covers
BlockOffsets(page_pos) == page_pos .. (page_pos + CONFIG_BLOCK_SIZE - 1)


(***************************************************************************)
(* Inputs the model enumerates                                             *)
(***************************************************************************)
\* the block-aligned addresses of the two application pages
BlockAddrs ==
    {a \in CONFIG_APPLICATION_START ..
              (CONFIG_APPLICATION_START + 2 * FlashPageSize - 1) :
        a % CONFIG_BLOCK_SIZE = 0}

\* write-block addresses: the blocks, the block below the application, and
\* an address that is not a multiple of the block size
WriteAddrs ==
    BlockAddrs \cup {CONFIG_APPLICATION_START - CONFIG_BLOCK_SIZE,
                     CONFIG_APPLICATION_START + CONFIG_BLOCK_SIZE + 1}

ReadAddrs == BlockAddrs

\* write-block frames, <<address, argument count>>: every address with the
\* right count, and the first application block one word short
WriteFrames ==
    {<<a, (CONFIG_BLOCK_SIZE \div 4) + 1>> : a \in WriteAddrs}
        \cup {<<CONFIG_APPLICATION_START, CONFIG_BLOCK_SIZE \div 4>>}

\* the payload of the frame with sequence number n: bytes that are neither
\* 0x00 nor 0xFF and differ from byte to byte and from frame to frame
Payload(n) == [i \in 1 .. CONFIG_BLOCK_SIZE |-> 16 * n + i - 1]

Configs ==
    [enable_button : BOOLEAN, button_high : {0, 1},
     enable_double_reset : BOOLEAN]

FullConfig ==
    [enable_button |-> TRUE, button_high |-> 1, enable_double_reset |-> TRUE]

\* program memory at power-on: the bootloader below the application, and
\* an application region that is erased, holds an application, or holds an
\* application whose first block is 0xFF except for its last byte
BootloaderByte == 176
AppByte == 165
FlashImage(kind) ==
    [a \in FlashAddrs |->
        IF a < CONFIG_APPLICATION_START THEN BootloaderByte
        ELSE IF kind = "erased" THEN Fill
        ELSE IF a >= CONFIG_APPLICATION_START + 2 * FlashPageSize THEN Fill
        ELSE IF kind = "sparse"
                /\ a < CONFIG_APPLICATION_START + CONFIG_BLOCK_SIZE - 1
             THEN Fill
        ELSE AppByte]
InitialFlash == {FlashImage(k) : k \in {"erased", "app"}}
BootInitialFlash == {FlashImage(k) : k \in {"erased", "app", "sparse"}}

NoResp == [kind |-> "none", addr |-> 0, data |-> <<>>]

(***************************************************************************)
(* Decisions of the code                                                   *)
(***************************************************************************)
\* command_write_block: the argument count check
ArgCountOk(n) == n = (CONFIG_BLOCK_SIZE \div 4) + 1

\* a bound that is one block too low
AddressOk_BlockTooLow(block_address) ==
    ~(block_address < CONFIG_APPLICATION_START - CONFIG_BLOCK_SIZE)

\* command_write_block: the address check
AddressOk(block_address) == ~(block_address < CONFIG_APPLICATION_START)

\* command_write_block: page_pos
PagePos(block_address) == block_address % FlashPageSize

\* a commit after every block that fits the page
CommitTrigger_EveryBlock(page_pos) ==
    page_pos + CONFIG_BLOCK_SIZE <= FlashPageSize

\* command_write_block: the commit condition
CommitTrigger(page_pos) == page_pos + CONFIG_BLOCK_SIZE = FlashPageSize

\* command_eof: the page address of the final commit
EofPageAddress(lpa) == lpa + FlashPageSize

\* command_eof: the page count it reports
PageCount(lpa) == U32SubDiv(lpa, CONFIG_APPLICATION_START, FlashPageSize) + 1

\* a scan that looks at the first byte only
CheckApplicationCode_FirstByteOnly(buf) == buf[0] # Fill

\* check_application_code, on the buffer the first block was read into
CheckApplicationCode(buf) ==
    \E i \in 0 .. (CONFIG_BLOCK_SIZE - 1) : buf[i] # Fill

\* check_button_pressed
CheckButtonPressed(c, level) == c.enable_button /\ level = c.button_high

\* canboot_main: the condition of the if
BootEnters(code, buf, c, level) ==
    \/ code = REQUEST_SIG
    \/ ~CheckApplicationCode(buf)
    \/ CheckButtonPressed(c, level)

\* the loop left while the transport is still sending
LoopExit_TxBusy(done, tx_clear) == done /\ ~tx_clear

\* a loop that stops as soon as either condition holds
LoopExit_Either(done, tx_clear) == done \/ tx_clear

\* enter_bootloader: the condition of the break
LoopExit(done, tx_clear) == done /\ tx_clear


(***************************************************************************)
(* Reset and boot                                                          *)
(***************************************************************************)
\* A device reset: the persistent register and the flash survive, the
\* statics are initialised again by the C startup code, the transport and
\* the session are gone, and the button has whatever level it has now.
Reset(at, code) ==
    /\ pc' = "main"
    /\ bootup_code' = code
    /\ page_buffer' = ZeroBuffer
    /\ last_page_address' = 0
    /\ page_pending' = FALSE
    /\ is_in_transfer' = FALSE
    /\ complete' = FALSE
    /\ tx_busy' = FALSE
    /\ resp' = NoResp
    /\ log' = <<>>
    /\ commits' = <<>>
    /\ staged' = {}
    /\ staged_pages' = {}
    /\ button_level' \in {0, 1}
    /\ nresets' = nresets + 1
    /\ reset_at' = at
    /\ UNCHANGED <<flash, cfg, cmds_left>>

\* canboot_main up to the decision: get_bootup_code, and the || chain,
\* which reads the application's first block into page_buffer only when
\* the signature did not match
BootDecision ==
    /\ pc = "main"
    /\ LET code == bootup_code
           buf == IF code = REQUEST_SIG THEN page_buffer
                  ELSE Memcpy(page_buffer, 0,
                              FlashReadBlock(flash, CONFIG_APPLICATION_START))
       IN /\ page_buffer' = buf
          /\ pc' = IF BootEnters(code, buf, cfg, button_level)
                   THEN "clear_code" ELSE "double_reset"
    /\ UNCHANGED <<bootup_code, flash, last_page_address, page_pending,
                   is_in_transfer, complete>>
    /\ UNCHANGED <<session, env>>

\* update mode entered with the persistent register left as it was
ClearBootupCode_NotCleared ==
    /\ pc = "clear_code"
    /\ pc' = "run_loop"
    /\ UNCHANGED <<bootup_code, flash, ram, session, env>>

\* canboot_main: set_bootup_code(0), then enter_bootloader's sched_run_init
ClearBootupCode ==
    /\ pc = "clear_code"
    /\ bootup_code' = 0
    /\ pc' = "run_loop"
    /\ UNCHANGED <<flash, ram, session, env>>

\* check_double_reset: set_bootup_code(REQUEST_SIG), or nothing when the
\* detection is not built in
DoubleResetSet ==
    /\ pc = "double_reset"
    /\ IF cfg.enable_double_reset
       THEN bootup_code' = REQUEST_SIG /\ pc' = "dr_delay"
       ELSE bootup_code' = bootup_code /\ pc' = "jump"
    /\ UNCHANGED <<flash, ram, session, env>>

\* a detection window that is never closed
DoubleResetClear_NotCleared ==
    /\ pc = "dr_delay"
    /\ pc' = "jump"
    /\ UNCHANGED <<bootup_code, flash, ram, session, env>>

\* check_double_reset: the delay has passed, set_bootup_code(0)
DoubleResetClear ==
    /\ pc = "dr_delay"
    /\ bootup_code' = 0
    /\ pc' = "jump"
    /\ UNCHANGED <<flash, ram, session, env>>

\* canboot_main: jump_to_application
JumpToApplication ==
    /\ pc = "jump"
    /\ pc' = "app"
    /\ UNCHANGED <<bootup_code, flash, ram, session, env>>

\* the running application asks for the bootloader: it stores the request
\* signature and resets the device
AppRequestsBootloader ==
    /\ pc = "app"
    /\ nresets < MaxResets
    /\ Reset("app_request", REQUEST_SIG)

\* the reset button (or a watchdog), at any point of the program
ExternalReset ==
    /\ nresets < MaxResets
    /\ Reset(pc, bootup_code)

(***************************************************************************)
(* Update mode: the run loop                                               *)
(***************************************************************************)
\* enter_bootloader: the test after sched_run_tasks
LoopCheck ==
    /\ pc = "run_loop"
    /\ LoopExit(complete, ~tx_busy)
    /\ pc' = "reboot_delay"
    /\ UNCHANGED <<bootup_code, flash, ram, session, env>>

\* enter_bootloader: udelay, canbus_reboot
CanbusReboot ==
    /\ pc = "reboot_delay"
    /\ nresets < MaxResets
    /\ Reset("reboot", bootup_code)

\* the transport has sent everything that was queued
TxDone ==
    /\ tx_busy
    /\ tx_busy' = FALSE
    /\ UNCHANGED <<pc, bootup_code, flash, ram, resp, log, commits, staged,
                   staged_pages, env>>


(***************************************************************************)
(* Update mode: the command handlers, run by sched_run_tasks               *)
(***************************************************************************)
\* what every handled frame does to the model's bookkeeping: one command
\* less to come, one entry in the log, one response queued for sending
Handled(entry, response) ==
    /\ cmds_left' = cmds_left - 1
    /\ log' = Append(log, entry)
    /\ resp' = response
    /\ tx_busy' = TRUE
    /\ UNCHANGED <<pc, bootup_code, button_level, cfg, nresets, reset_at>>

LogEntry(op, addr, argc, data, nw) ==
    [op |-> op, addr |-> addr, argc |-> argc, data |-> data, nw |-> nw]

Ack(kind, addr, data) == [kind |-> kind, addr |-> addr, data |-> data]

\* a write_page that leaves page_pending set
WritePage_PendingKept(page_address, buf, by, offsets, pages) ==
    /\ flash' = FlashWritePage(flash, page_address, buf)
    /\ page_buffer' = FilledBuffer
    /\ last_page_address' = page_address
    /\ page_pending' = TRUE
    /\ commits' = Append(commits,
                         [addr |-> page_address, data |-> PageOf(buf),
                          at |-> Len(log) + 1, by |-> by,
                          staged |-> offsets, pages |-> pages])

\* write_page, applied to the buffer as the caller left it
WritePage(page_address, buf, by, offsets, pages) ==
    /\ flash' = FlashWritePage(flash, page_address, buf)
    /\ page_buffer' = FilledBuffer
    /\ last_page_address' = page_address
    /\ page_pending' = FALSE
    /\ commits' = Append(commits,
                         [addr |-> page_address, data |-> PageOf(buf),
                          at |-> Len(log) + 1, by |-> by,
                          staged |-> offsets, pages |-> pages])

\* command_connect
CommandConnect ==
    /\ pc = "run_loop" /\ cmds_left > 0
    /\ Handled(LogEntry("connect", 0, 0, <<>>, 0),
               Ack("connect", 0,
                   <<CONFIG_APPLICATION_START, CONFIG_BLOCK_SIZE>>))
    /\ UNCHANGED <<flash, ram, commits, staged, staged_pages>>

\* command_read_block
CommandReadBlock ==
    /\ pc = "run_loop" /\ cmds_left > 0
    /\ \E block_address \in ReadAddrs :
          Handled(LogEntry("read", block_address, 1, <<>>, 0),
                  Ack("req_block", block_address,
                      FlashReadBlock(flash, block_address)))
    /\ is_in_transfer' = TRUE
    /\ UNCHANGED <<flash, page_buffer, last_page_address, page_pending,
                   complete, commits, staged, staged_pages>>

\* command_write_block
CommandWriteBlock ==
    /\ pc = "run_loop" /\ cmds_left > 0
    /\ is_in_transfer' = TRUE
    /\ complete' = complete
    /\ \E frame \in WriteFrames :
       LET block_address == frame[1]
           argc == frame[2]
           data == Payload(cmds_left)
           page_pos == PagePos(block_address)
           buf == Memcpy(page_buffer, page_pos, data)
           commit == CommitTrigger(page_pos)
       IN IF ~ArgCountOk(argc) \/ ~AddressOk(block_address)
          THEN /\ Handled(LogEntry("write", block_address, argc, data, 0),
                          Ack("error", 0, <<>>))
               /\ UNCHANGED <<flash, page_buffer, last_page_address,
                              page_pending, commits, staged, staged_pages>>
          ELSE /\ Handled(LogEntry("write", block_address, argc, data,
                                   IF commit THEN 1 ELSE 0),
                          Ack("rx_block", block_address, <<>>))
               /\ IF commit
                  THEN /\ WritePage(block_address - page_pos, buf, "write",
                                    staged \cup BlockOffsets(page_pos),
                                    staged_pages \cup
                                        {PageBase(block_address)})
                       /\ staged' = {}
                       /\ staged_pages' = {}
                  ELSE /\ page_buffer' = buf
                       /\ page_pending' = TRUE
                       /\ staged' = staged \cup BlockOffsets(page_pos)
                       /\ staged_pages' = staged_pages \cup
                              {PageBase(block_address)}
                       /\ UNCHANGED <<flash, last_page_address, commits>>

\* command_eof
CommandEof ==
    /\ pc = "run_loop" /\ cmds_left > 0
    /\ is_in_transfer' = FALSE
    /\ complete' = complete
    /\ LET lpa == IF page_pending THEN EofPageAddress(last_page_address)
                  ELSE last_page_address
       IN /\ Handled(LogEntry("eof", 0, 0, <<>>,
                              IF page_pending THEN 1 ELSE 0),
                     Ack("rx_eof", 0, <<PageCount(lpa)>>))
          /\ IF page_pending
             THEN /\ WritePage(lpa, page_buffer, "eof", staged,
                               staged_pages)
                  /\ staged' = {}
                  /\ staged_pages' = {}
             ELSE UNCHANGED <<flash, page_buffer, last_page_address,
                              page_pending, commits, staged, staged_pages>>

\* a complete handler that answers but forgets the flag
CommandComplete_FlagNotSet ==
    /\ pc = "run_loop" /\ cmds_left > 0
    /\ Handled(LogEntry("complete", 0, 0, <<>>, 0), Ack("complete", 0, <<>>))
    /\ UNCHANGED <<flash, ram, commits, staged, staged_pages>>

\* command_complete
CommandComplete ==
    /\ pc = "run_loop" /\ cmds_left > 0
    /\ Handled(LogEntry("complete", 0, 0, <<>>, 0), Ack("complete", 0, <<>>))
    /\ complete' = TRUE
    /\ UNCHANGED <<flash, page_buffer, last_page_address, page_pending,
                   is_in_transfer, commits, staged, staged_pages>>

(***************************************************************************)
(* Specifications                                                          *)
(***************************************************************************)
PowerOn ==
    /\ pc = "main"
    /\ bootup_code \in BootupCodes
    /\ page_buffer = ZeroBuffer
    /\ last_page_address = 0
    /\ page_pending = FALSE
    /\ is_in_transfer = FALSE
    /\ complete = FALSE
    /\ tx_busy = FALSE
    /\ button_level \in {0, 1}
    /\ resp = NoResp
    /\ log = <<>>
    /\ commits = <<>>
    /\ staged = {}
    /\ staged_pages = {}
    /\ nresets = 0
    /\ reset_at = "power"

\* the protocol, in the build that has the button and the double-reset
\* detection
Init ==
    /\ PowerOn
    /\ flash \in InitialFlash
    /\ cfg = FullConfig
    /\ cmds_left = MaxCmds

\* the boot decision, in every build
BootInit ==
    /\ PowerOn
    /\ flash \in BootInitialFlash
    /\ cfg \in Configs
    /\ cmds_left = MaxBootCmds

Next ==
    \/ BootDecision
    \/ ClearBootupCode
    \/ DoubleResetSet
    \/ DoubleResetClear
    \/ JumpToApplication
    \/ AppRequestsBootloader
    \/ ExternalReset
    \/ LoopCheck
    \/ CanbusReboot
    \/ TxDone
    \/ CommandConnect
    \/ CommandReadBlock
    \/ CommandWriteBlock
    \/ CommandEof
    \/ CommandComplete

Spec == Init /\ [][Next]_vars

BootSpec == BootInit /\ [][Next]_vars

\* the run loop under fair scheduling: enter_bootloader is a for (;;) loop
\* that tests the exit condition after every sched_run_tasks, and the
\* delay and canbus_reboot after the loop are straight-line code; what the
\* host sends, and when the transport has sent, is not under the device's
\* control and gets no fairness
FairInit ==
    /\ PowerOn
    /\ flash \in InitialFlash
    /\ cfg = FullConfig
    /\ cmds_left = MaxBootCmds

FairSpec ==
    /\ FairInit
    /\ [][Next]_vars
    /\ WF_vars(LoopCheck)
    /\ WF_vars(CanbusReboot)


(***************************************************************************)
(* Properties                                                              *)
(***************************************************************************)
Last(q) == q[Len(q)]

\* the step handled one more frame, and it was a write-block
WriteBlockStep ==
    /\ Len(log') = Len(log) + 1
    /\ Last(log').op = "write"

\* a write-block frame the protocol calls invalid
Invalid(e) ==
    \/ e.argc # (CONFIG_BLOCK_SIZE \div 4) + 1
    \/ e.addr < CONFIG_APPLICATION_START

\* C1: a write-block with a wrong argument count or an address below the
\* application start is answered with a command error, writes no flash
\* page, and leaves last_page_address, page_pending and page_buffer as
\* they were.
C1_InvalidWriteBlockRejected ==
    [][(WriteBlockStep /\ Invalid(Last(log')))
          => /\ resp'.kind = "error"
             /\ Last(log').nw = 0
             /\ flash' = flash
             /\ commits' = commits
             /\ last_page_address' = last_page_address
             /\ page_pending' = page_pending
             /\ page_buffer' = page_buffer]_vars

\* a block is pending, then a frame one word short and a frame below the
\* application were both refused
C1_Witness ==
    /\ Len(log) = 3
    /\ log[1].op = "write" /\ ~Invalid(log[1])
    /\ log[2].op = "write"
    /\ log[2].argc # (CONFIG_BLOCK_SIZE \div 4) + 1
    /\ log[3].op = "write"
    /\ log[3].addr < CONFIG_APPLICATION_START
    /\ resp.kind = "error"
    /\ page_pending
    /\ \E i \in BufIdx : page_buffer[i] = log[1].data[1]

\* frames i .. i + BlocksPerPage - 1 are write-blocks at the consecutive
\* block addresses of one page at or above the application start
PageRunAt(i) ==
    /\ i + BlocksPerPage - 1 <= Len(log)
    /\ log[i].addr % FlashPageSize = 0
    /\ log[i].addr >= CONFIG_APPLICATION_START
    /\ \A k \in 0 .. (BlocksPerPage - 1) :
          /\ log[i + k].op = "write"
          /\ log[i + k].argc = (CONFIG_BLOCK_SIZE \div 4) + 1
          /\ log[i + k].addr = log[i].addr + k * CONFIG_BLOCK_SIZE

\* the payloads of the run at i, concatenated
RunData(i) ==
    [j \in 1 .. FlashPageSize |->
        log[i + ((j - 1) \div CONFIG_BLOCK_SIZE)].data[
            ((j - 1) % CONFIG_BLOCK_SIZE) + 1]]

\* the commits made while frames i .. j were handled
CommitsDuring(i, j) == {n \in 1 .. Len(commits) : commits[n].at \in i .. j}

\* C2: consecutive write-blocks that exactly fill a page at or above the
\* application start cause exactly one flash commit, during the last of
\* them, at the page's base, holding the payloads in address order; right
\* afterwards page_buffer is all 0xFF and page_pending is false.
C2_FullPageCommitsOnce ==
    \A i \in 1 .. Len(log) :
        PageRunAt(i) =>
            LET j == i + BlocksPerPage - 1
            IN /\ Cardinality(CommitsDuring(i, j)) = 1
               /\ \A n \in CommitsDuring(i, j) :
                     /\ commits[n].at = j
                     /\ commits[n].addr = log[i].addr
                     /\ commits[n].data = RunData(i)
               /\ j = Len(log) =>
                     /\ page_buffer = FilledBuffer
                     /\ ~page_pending
                     /\ last_page_address = log[i].addr
                     /\ \A a \in 0 .. (FlashPageSize - 1) :
                           flash[log[i].addr + a] = RunData(i)[a + 1]

\* the second application page has just been filled by two write-blocks
C2_Witness ==
    /\ Len(log) = 3
    /\ PageRunAt(2)
    /\ log[2].addr = CONFIG_APPLICATION_START + FlashPageSize
    /\ Len(commits) >= 1
    /\ page_buffer = FilledBuffer


\* C3: the commit end-of-file performs for a pending page targets the base
\* address of the flash page the staged blocks were addressed to.
C3_EofCommitsStagedPage ==
    \A n \in 1 .. Len(commits) :
        commits[n].by = "eof" => commits[n].addr \in commits[n].pages

\* C4: every committed page holds 0xFF in every byte position that no
\* accepted write-block has written since the previous commit, or since
\* update mode was entered.
C4_UnwrittenBytesAreFill ==
    \A n \in 1 .. Len(commits) :
        \A off \in 0 .. (FlashPageSize - 1) :
            off \notin commits[n].staged => commits[n].data[off + 1] = Fill

\* the session so far is N >= 1 accepted write-blocks at consecutive block
\* addresses from the application start, then end-of-file
ContiguousSession ==
    /\ Len(log) >= 2
    /\ Last(log).op = "eof"
    /\ \A k \in 1 .. (Len(log) - 1) :
          /\ log[k].op = "write"
          /\ log[k].argc = (CONFIG_BLOCK_SIZE \div 4) + 1
          /\ log[k].addr = CONFIG_APPLICATION_START
                              + (k - 1) * CONFIG_BLOCK_SIZE

\* ceil(n * block_size / page_size)
PagesCovered(n) ==
    (n * CONFIG_BLOCK_SIZE + FlashPageSize - 1) \div FlashPageSize

\* C5: after N consecutive blocks from a page-aligned application start,
\* end-of-file reports the number of flash pages those blocks cover.
C5_PageCountIsPagesCovered ==
    ContiguousSession =>
        /\ resp.kind = "rx_eof"
        /\ resp.data = <<PagesCovered(Len(log) - 1)>>

\* frame i is an accepted write-block at block address a
AcceptedWriteAt(i, a) ==
    /\ log[i].op = "write"
    /\ ~Invalid(log[i])
    /\ log[i].addr = a

\* the data staged by frame i has been committed: a later write-block (or
\* frame i itself) completed the page containing a, or end-of-file flushed
\* the pending page
CommittedAfter(i, a) ==
    \E n \in 1 .. Len(commits) :
        /\ commits[n].at >= i
        /\ \/ commits[n].by = "write" /\ commits[n].addr = PageBase(a)
           \/ commits[n].by = "eof"
                 /\ \A m \in 1 .. (n - 1) : commits[m].at < i

\* C6: once write-block(a, data) has been accepted and its page committed,
\* read-block(a) returns data, unless a later write-block targeted a.
C6_ReadBackAfterCommit ==
    \A i \in 1 .. Len(log) :
        (/\ i < Len(log)
         /\ Last(log).op = "read"
         /\ Last(log).addr % CONFIG_BLOCK_SIZE = 0
         /\ AcceptedWriteAt(i, Last(log).addr)
         /\ \A k \in (i + 1) .. Len(log) :
               ~(log[k].op = "write" /\ log[k].addr = log[i].addr)
         /\ CommittedAfter(i, log[i].addr))
        => resp.data = log[i].data


\* the first block of application memory is entirely 0xFF
FirstBlockErased ==
    \A a \in CONFIG_APPLICATION_START ..
                (CONFIG_APPLICATION_START + CONFIG_BLOCK_SIZE - 1) :
        flash[a] = Fill

\* button support is built in and the pin reads its active level
ButtonActive == cfg.enable_button /\ button_level = cfg.button_high

\* C7: a boot enters update mode exactly when the persistent register
\* holds the request signature, or the application's first block is all
\* 0xFF, or the enabled button reads active; otherwise it goes on to run
\* the application.  (Right after the decision the register, the flash and
\* the button are still what the decision saw.)
C7_BootDecision ==
    /\ pc = "clear_code" =>
          (bootup_code = REQUEST_SIG \/ FirstBlockErased \/ ButtonActive)
    /\ pc = "double_reset" =>
          ~(bootup_code = REQUEST_SIG \/ FirstBlockErased \/ ButtonActive)
    /\ FirstBlockErased => pc \notin {"double_reset", "dr_delay", "jump", "app"}

\* update mode is being entered because of the button alone
C7_Witness ==
    /\ pc = "clear_code"
    /\ bootup_code = StaleCode
    /\ ~FirstBlockErased
    /\ ButtonActive
    /\ cfg.button_high = 0

\* C8: the persistent register does not hold the request signature while
\* update mode runs, nor when the boot after canbus_reboot starts, so that
\* boot does not enter update mode on account of the signature.
C8_SignalClearedInUpdateMode ==
    /\ pc \in {"run_loop", "reboot_delay"} => bootup_code # REQUEST_SIG
    /\ reset_at = "reboot" /\ pc \in {"main", "clear_code"} =>
          bootup_code # REQUEST_SIG
    /\ reset_at = "reboot" /\ pc = "clear_code" =>
          (FirstBlockErased \/ ButtonActive)

\* after an update that installed an application, the boot that follows
\* canbus_reboot goes on to run it
C8_Witness ==
    /\ reset_at = "reboot"
    /\ pc = "double_reset"
    /\ bootup_code = 0
    /\ flash[CONFIG_APPLICATION_START] \notin {Fill, AppByte}

\* the positions of a boot that has decided to run the application
RunApplicationPath == {"double_reset", "dr_delay", "jump", "app"}

\* C9: with double-reset detection built in, an application installed and
\* the button inactive, the boot after a reset that hit the run-application
\* path enters update mode exactly when the reset hit the detection
\* window; and the request signature is never in the register when
\* jump_to_application is reached.
C9_DoubleReset ==
    /\ (/\ cfg.enable_double_reset
        /\ pc \in {"clear_code", "double_reset"}
        /\ reset_at \in RunApplicationPath
        /\ ~FirstBlockErased
        /\ ~ButtonActive)
       => (pc = "clear_code" <=> reset_at = "dr_delay")
    /\ pc \in {"jump", "app"} => bootup_code # REQUEST_SIG

\* a reset inside the window has led the next boot into update mode
C9_Witness ==
    /\ cfg.enable_double_reset
    /\ pc = "clear_code"
    /\ reset_at = "dr_delay"
    /\ ~FirstBlockErased
    /\ ~ButtonActive
    /\ bootup_code = REQUEST_SIG

\* C10: canbus_reboot is reached only with complete set and the transmit
\* queue empty, after a complete command has been handled and answered.
C10_RebootOnlyWhenComplete ==
    pc = "reboot_delay" =>
        /\ complete
        /\ ~tx_busy
        /\ \E i \in 1 .. Len(log) : log[i].op = "complete"

\* the loop has been left after write-block, end-of-file and complete
C10_Witness ==
    /\ pc = "reboot_delay"
    /\ Len(log) = 3
    /\ log[1].op = "write"
    /\ log[2].op = "eof"
    /\ log[3].op = "complete"


\* C11: complete is false when update mode is entered, is set only by the
\* complete command, and then stays set under every later command until
\* the device resets: at every point it is set exactly when a complete
\* command has been handled since the last reset.
C11_CompleteSetOnlyByComplete ==
    /\ complete <=> (\E i \in 1 .. Len(log) : log[i].op = "complete")
    /\ pc \in {"main", "clear_code"} => ~complete

\* complete came first, and a write-block and an end-of-file after it have
\* left the flag set
C11_Witness ==
    /\ pc = "run_loop"
    /\ Len(log) = 3
    /\ log[1].op = "complete"
    /\ log[2].op = "write" /\ ~Invalid(log[2])
    /\ log[3].op = "eof"
    /\ complete


\* the step handled one more frame, and it was an end-of-file
EofStep ==
    /\ Len(log') = Len(log) + 1
    /\ Last(log').op = "eof"

\* C12: end-of-file with page_pending set performs exactly one flash commit
\* and clears page_pending; with page_pending clear it performs none.  An
\* end-of-file directly after an end-of-file performs no commit and
\* reports the same page count.
C12_EofCommitsPendingOnce ==
    [][EofStep =>
          /\ page_pending =>
                /\ Len(commits') = Len(commits) + 1
                /\ Last(commits').by = "eof"
                /\ Last(commits').data = PageOf(page_buffer)
                /\ Last(log').nw = 1
                /\ flash' = FlashWritePage(flash, Last(commits').addr,
                                           page_buffer)
          /\ ~page_pending =>
                /\ commits' = commits
                /\ flash' = flash
                /\ Last(log').nw = 0
          /\ ~page_pending'
          /\ (Len(log) >= 1 /\ Last(log).op = "eof") =>
                /\ commits' = commits
                /\ resp'.data = resp.data]_vars

\* one staged block, then two end-of-files: one commit, the same count
C12_Witness ==
    /\ Len(log) = 3
    /\ log[1].op = "write" /\ ~Invalid(log[1])
    /\ staged_pages = {}
    /\ log[2].op = "eof" /\ log[2].nw = 1
    /\ log[3].op = "eof" /\ log[3].nw = 0
    /\ Len(commits) = 1
    /\ PagePos(log[1].addr) = 0
    /\ resp.kind = "rx_eof"


\* C13: within one session the page addresses passed to the flash commit
\* are strictly increasing: no page is committed at an address lower than
\* or equal to that of an earlier commit.
C13_CommitsStrictlyIncreasing ==
    \A m, n \in 1 .. Len(commits) :
        m < n => commits[m].addr < commits[n].addr

\* C14: at most one page is open at a time: whenever page_pending is set,
\* everything staged in page_buffer since the last commit was addressed to
\* one and the same flash page, and every commit carries data addressed to
\* one page only.
C14_OnePageOpen ==
    /\ page_pending => Cardinality(staged_pages) = 1
    /\ \A n \in 1 .. Len(commits) : Cardinality(commits[n].pages) = 1

\* frames i .. i + BlocksPerPage - 1 are accepted write-blocks that
\* together cover the blocks of the page at base, in some order
PagePermutationAt(i, base) ==
    /\ i + BlocksPerPage - 1 <= Len(log)
    /\ \A k \in 0 .. (BlocksPerPage - 1) :
          /\ log[i + k].op = "write"
          /\ ~Invalid(log[i + k])
    /\ {log[i + k].addr : k \in 0 .. (BlocksPerPage - 1)} =
          {base + b * CONFIG_BLOCK_SIZE : b \in 0 .. (BlocksPerPage - 1)}

\* the byte the frames i .. i + BlocksPerPage - 1 sent for address a
SentFor(i, a) ==
    LET k == CHOOSE k \in 0 .. (BlocksPerPage - 1) :
                 /\ log[i + k].addr <= a
                 /\ a < log[i + k].addr + CONFIG_BLOCK_SIZE
    IN log[i + k].data[a - log[i + k].addr + 1]

\* C15: the blocks of a page may arrive in any order: every permutation of
\* the write-blocks that cover one page commits the page exactly once, at
\* its base, with the payload of every block in place.
C15_AnyOrderWithinPage ==
    \A i \in 1 .. Len(log) :
        \A base \in {a \in BlockAddrs : a % FlashPageSize = 0} :
            PagePermutationAt(i, base) =>
                LET j == i + BlocksPerPage - 1
                IN /\ Cardinality(CommitsDuring(i, j)) = 1
                   /\ \A n \in CommitsDuring(i, j) :
                         /\ commits[n].addr = base
                         /\ \A off \in 0 .. (FlashPageSize - 1) :
                               commits[n].data[off + 1] =
                                   SentFor(i, base + off)

\* C16: every write-block that passes validation has
\* page_pos + block_size <= page_size, so nothing is copied into
\* page_buffer beyond the current page.
C16_CopyStaysInPage ==
    /\ (/\ Len(log) >= 1
        /\ Last(log).op = "write"
        /\ resp.kind = "rx_block")
       => PagePos(Last(log).addr) + CONFIG_BLOCK_SIZE <= FlashPageSize
    /\ \A off \in staged : off < FlashPageSize
    /\ \A n \in 1 .. Len(commits) :
          \A off \in commits[n].staged : off < FlashPageSize

\* C17: a rejected write-block handled while is_in_transfer is clear
\* leaves it clear.
C17_RejectedWriteKeepsTransferFlag ==
    [][(WriteBlockStep /\ Invalid(Last(log')) /\ ~is_in_transfer)
          => ~is_in_transfer']_vars

\* C18: complete is set only when an end-of-file has been handled after
\* the last accepted write-block, so the run loop is never left for the
\* reset while page_pending is set.
C18_CompleteOnlyAfterEof ==
    /\ \A i \in 1 .. Len(log) :
          log[i].op = "complete" =>
              \A w \in 1 .. (i - 1) :
                  (log[w].op = "write" /\ ~Invalid(log[w])) =>
                      \E e \in (w + 1) .. (i - 1) : log[e].op = "eof"
    /\ pc = "reboot_delay" => ~page_pending

\* C19: under fair scheduling of the run loop, once complete has been
\* handled and the transmit queue stays empty from some point on, the loop
\* is eventually left and the device is eventually reset; until the reset
\* the device stays in the loop or in the delay after it and never goes to
\* the application jump, and the loop is left only with complete set and
\* the transmit queue empty.
C19_LoopExitsAndResets ==
    /\ (<>[](~tx_busy)) =>
          ((pc = "run_loop" /\ complete) ~> (pc \in {"reboot_delay", "main"}))
    /\ (pc = "reboot_delay" /\ nresets < MaxResets) ~> (pc = "main")
    /\ [][(pc \in {"run_loop", "reboot_delay"}) =>
              /\ pc' \in {"run_loop", "reboot_delay", "main"}
              /\ (pc = "run_loop" /\ pc' = "reboot_delay") =>
                    (complete /\ ~tx_busy)
              /\ (pc = "reboot_delay") => (pc' \in {"reboot_delay", "main"})
          ]_vars

\* the loop was left after complete and the reset has been issued
C19_Witness ==
    /\ pc = "main"
    /\ reset_at = "reboot"
    /\ nresets = 1

\* C20: every flash page write of update mode targets a page at or above
\* the (page-aligned) application start.
C20_CommitsInApplicationRegion ==
    \A n \in 1 .. Len(commits) :
        commits[n].addr >= CONFIG_APPLICATION_START

====
